---- MODULE Spec2Model ----
(***************************************************************************)
(* Model of ClipboardImageDownloader (src/链接批量下载.py): download_all,    *)
(* the worker threads, download_image's retry recursion, the two dedup     *)
(* sets, the naming of destination paths and the statistics counters.      *)
(*                                                                         *)
(* The worker threads share stats, downloaded_files, failed_urls,          *)
(* file_hash_set and the save directory without any lock.  Every Python    *)
(* access to shared state is a step of its own, and an augmented           *)
(* assignment  stats[k] += 1  is two steps, the read and the write,        *)
(* because Python gives no atomicity for it.  A step is joined to its      *)
(* neighbour only where no other thread can tell the difference: a list    *)
(* append with the read that follows it, the write of a counter with the   *)
(* task_done() that follows it, and the test of self.running with the      *)
(* queue.get() that follows it.                                            *)
(***************************************************************************)
EXTENDS Naturals, Sequences, FiniteSets, TLC

\* ---------------------------------------------------------------- bounds
\* config['max_workers'] ranges over 1..MaxWorkers
MaxWorkers == 2
\* config['retry_attempts'] ranges over 0..MaxRetry
MaxRetry == 1
\* time.time() in seconds ranges over 1..MaxClock
MaxClock == 2
\* thread slots: the threads of one batch plus threads that outlived join(timeout=1)
MaxThreads == MaxWorkers + 1

Threads == 1..MaxThreads

\* ---------------------------------------------------------------- inputs
\* URLs: host, base name of the path, extension of the path
UrlA  == [host |-> "h1", file |-> "a",   ext |-> ".jpg"]
UrlB  == [host |-> "h1", file |-> "b",   ext |-> ".jpg"]
UrlA2 == [host |-> "h2", file |-> "a",   ext |-> ".jpg"]
UrlB2 == [host |-> "h2", file |-> "b",   ext |-> ".jpg"]
UrlP  == [host |-> "h1", file |-> "pic", ext |-> ""]
UrlBig == [host |-> "h1", file |-> "big", ext |-> ".JPG"]

\* The bytes each URL serves: UrlA and UrlB serve the same image, the other
\* URLs another one.
Body(url) ==
  IF url = UrlA \/ url = UrlB THEN "img1" ELSE "img2"

\* The URL lists a caller passes to download_all, and the sequences of calls
\* a caller makes on one instance.
UrlLists == { <<UrlA, UrlB, UrlA>>, <<UrlA, UrlB>>, <<UrlA, UrlA2>>, <<UrlP>>,
              <<UrlBig, UrlA>>, <<UrlP, UrlBig>> }

\* Two batches of two URLs each, the two of a batch with the same base name
SamePathCalls == << <<UrlA, UrlA2>>, <<UrlB, UrlB2>> >>

\* The same URL passed in three calls in a row
SameUrlCalls == << <<UrlA>>, <<UrlA>>, <<UrlA>> >>

CallSeqs == { <<urls>> : urls \in UrlLists }
              \cup { << <<UrlA>>, <<UrlA, UrlB>> >>, SamePathCalls, SameUrlCalls }

\* What is on disk after an attempt that died while streaming the body.
Partial == "partial"

\* The outcomes of one fetch attempt of download_image.
\*   ok            the body is written and passes both validations
\*   http_error    requests.get, raise_for_status or a check of the headers
\*                 other than that of line 219 raised (nothing written)
\*   too_large     the declared Content-Length is over max_file_size (line 219)
\*   stream_error  the connection broke inside iter_content (partial file)
\*   invalid_image the written file failed validation and was removed
Errors == {"http_error", "too_large", "stream_error", "invalid_image"}
AttemptOutcomes == {"ok"} \cup Errors

\* The server of UrlBig declares, in every response, a Content-Length over
\* config['max_file_size']; the other servers declare none over it.
ContentLengthOver(url) == url = UrlBig

\* The outcomes an attempt for url can have: a response with a length over
\* the maximum gets no further than line 219
Outcomes(url) ==
  IF ContentLengthOver(url)
  THEN {"http_error", "too_large"}
  ELSE AttemptOutcomes \ {"too_large"}

NoTask == [url |-> UrlA, save_path |-> <<0, "", 0>>, index |-> 0]
NoHash == "None"

VARIABLES
  config,            \* self.config (the keys the core reads)
  download_queue,    \* self.download_queue: the items of the queue.Queue
  unfinished_tasks,  \* queue.Queue.unfinished_tasks (put +1, task_done -1)
  downloaded_files,  \* self.downloaded_files
  failed_urls,       \* self.failed_urls
  stats,             \* self.stats
  url_hash_set,      \* self.url_hash_set
  file_hash_set,     \* self.file_hash_set
  threads,           \* self.threads
  running,           \* self.running
  disk,              \* the save directory: path -> bytes
  clock,             \* time.time(), whole seconds
  main,              \* the thread that calls download_all: position, locals, and
                     \* history (probe answers, events, earlier batches)
  wk,                \* the worker threads: position and locals
  log,               \* history per task of the batch (for the properties)
  result,            \* what download_all's caller sees when it returns
  calls              \* the URL lists the caller has yet to pass to download_all

vars == <<config, download_queue, unfinished_tasks, downloaded_files, failed_urls,
          stats, url_hash_set, file_hash_set, threads, running, disk, clock,
          main, wk, log, result, calls>>

shared == <<download_queue, unfinished_tasks, downloaded_files, failed_urls,
            stats, url_hash_set, file_hash_set, threads, running, disk>>

\* ---------------------------------------------------------------- helpers
Min(a, b) == IF a < b THEN a ELSE b

ZeroStats == [total |-> 0, success |-> 0, failed |-> 0, skipped |-> 0, duplicate |-> 0]

IdleWorker == [pc |-> "dead", task |-> NoTask, retry_count |-> 0,
               file_hash |-> NoHash, tmp |-> 0, err |-> "none", attempts |-> 0]

NoResult == [stats |-> ZeroStats, downloaded_files |-> <<>>, failed_urls |-> <<>>]

\* History of one task: how often it was dequeued, the counters incremented
\* for it, and how its download_image call ended ("none" while it has not)
NoLog == [deq |-> 0, out |-> <<>>, fetch |-> "none"]

\* hashlib.md5(url.encode()).hexdigest(): distinct URLs, distinct digests
UrlHash(url) == <<url.host, url.file, url.ext>>

\* str.lower() on the extensions the URLs of the model have
Lower(ext) == IF ext = ".JPG" THEN ".jpg" ELSE ext

SupportedExtensions == {".jpg", ".jpeg", ".png", ".gif", ".bmp", ".webp", ".tiff"}

\* What the HEAD probe of line 138 can give: a response with an image content
\* type, a response with another content type, or an exception (timeout,
\* connection error)
ProbeAnswers == {"image", "other", "error"}

\* The URLs of a list for which is_image_url makes the probe: those whose
\* lower-cased path ends with none of supported_extensions
Probed(urls) ==
  {urls[k] : k \in {j \in 1..Len(urls) : Lower(urls[j].ext) \notin SupportedExtensions}}

NoProbe == [url \in {} |-> "other"]

\* Faulty variant of is_image_url: the exception of a probe is not caught for what
\* it is and the URL is taken for an image
is_image_url_ErrorAccepted(url, probed) ==
  IF Lower(url.ext) \in SupportedExtensions
  THEN TRUE
  ELSE probed[url] \in {"image", "error"}

\* is_image_url: the lower-cased path with an extension of
\* supported_extensions is accepted without a probe; otherwise the result is
\* that of the probe (probed = the answer of the probe per probed URL), the
\* except clause of line 147 turning an exception into False
is_image_url(url, probed) ==
  IF Lower(url.ext) \in SupportedExtensions
  THEN TRUE
  ELSE probed[url] = "image"

\* Faulty variant of FilterUrls: the URL digest set is filled and never consulted
RECURSIVE FilterUrls_NoUrlDedup(_, _, _, _, _)
FilterUrls_NoUrlDedup(urls, acc, seen, dedup, probed) ==
  IF urls = <<>> THEN <<acc, seen>>
  ELSE LET url == Head(urls) IN
       IF is_image_url(url, probed)
       THEN FilterUrls_NoUrlDedup(Tail(urls), Append(acc, url),
                                  seen \cup {UrlHash(url)}, dedup, probed)
       ELSE FilterUrls_NoUrlDedup(Tail(urls), acc, seen, dedup, probed)

\* Faulty variant of FilterUrls: a URL whose digest is in the set is dropped
\* whatever config['deduplicate'] says
RECURSIVE FilterUrls_AlwaysDedup(_, _, _, _, _)
FilterUrls_AlwaysDedup(urls, acc, seen, dedup, probed) ==
  IF urls = <<>> THEN <<acc, seen>>
  ELSE LET url == Head(urls) IN
       IF is_image_url(url, probed) /\ UrlHash(url) \notin seen
       THEN FilterUrls_AlwaysDedup(Tail(urls), Append(acc, url),
                                   seen \cup {UrlHash(url)}, dedup, probed)
       ELSE FilterUrls_AlwaysDedup(Tail(urls), acc, seen, dedup, probed)

\* The filter loop of download_all: <<image_urls, url_hash_set afterwards>>
RECURSIVE FilterUrls(_, _, _, _, _)
FilterUrls(urls, acc, seen, dedup, probed) ==
  IF urls = <<>> THEN <<acc, seen>>
  ELSE LET url == Head(urls) IN
       IF is_image_url(url, probed) /\ (~dedup \/ UrlHash(url) \notin seen)
       THEN FilterUrls(Tail(urls), Append(acc, url), seen \cup {UrlHash(url)}, dedup, probed)
       ELSE FilterUrls(Tail(urls), acc, seen, dedup, probed)

\* get_filename_from_url: the base name, '.jpg' added when the path has no
\* extension, put into rename_pattern.  A file name is <<index part, name>>;
\* a pattern without {index} leaves the index part 0.
get_filename_from_url(url, index) ==
  LET filename == IF url.ext = "" THEN url.file \o ".jpg" ELSE url.file \o url.ext
  IN IF config.rename_pattern = "{index:03d}_{filename}"
     THEN <<index, filename>>
     ELSE <<0, filename>>

\* os.path.join(save_dir, filename), and the timestamp suffix of line 344:
\* a path is <<index part, name, timestamp suffix>>, suffix 0 meaning none.
PathOf(filename, suffix) == <<filename[1], filename[2], suffix>>

\* The save directory.  os.path.exists, open(path, 'wb') + write, os.remove
EmptyDisk == [p \in {} |-> ""]

Exists(d, path) == path \in DOMAIN d

WriteFile(d, path, bytes) ==
  [p \in DOMAIN d \cup {path} |-> IF p = path THEN bytes ELSE d[p]]

RemoveFile(d, path) == [p \in DOMAIN d \ {path} |-> d[p]]

\* ---------------------------------------------------------------- Init
\* The list of three URLs is run with one worker (the scenario of the
\* design's section 8); the lists of one and two URLs with every worker count.
\* The two batches of URLs with the same base name are run with the one
\* configuration under which the tasks of a batch share a path and run side
\* by side: dedup on, two workers, no retry, a pattern without {index}.
\* The sequences of calls that do not share a path are run without retries
\* (what they show is what one batch leaves to the next), and the three calls
\* with the same URL with one worker.
SamePathConfig == [deduplicate |-> TRUE, max_workers |-> 2, retry_attempts |-> 0,
                   rename_pattern |-> "{filename}"]

Configs == [deduplicate : BOOLEAN,
            max_workers : 1..MaxWorkers,
            retry_attempts : 0..MaxRetry,
            rename_pattern : {"{index:03d}_{filename}", "{filename}"}]

Init ==
  /\ config \in Configs
  /\ calls \in {c \in CallSeqs : (Len(c[1]) > 2 => config.max_workers = 1)
                                  /\ (c = SamePathCalls => config = SamePathConfig)
                                  /\ (c = SameUrlCalls => (config.max_workers = 1 /\ config.retry_attempts = 0))
                                  /\ (c = << <<UrlA>>, <<UrlA, UrlB>> >> => config.retry_attempts = 0)}
  /\ download_queue = <<>>
  /\ unfinished_tasks = 0
  /\ downloaded_files = <<>>
  /\ failed_urls = <<>>
  /\ stats = ZeroStats
  /\ url_hash_set = {}
  /\ file_hash_set = {}
  /\ threads = {}
  /\ running = FALSE
  /\ disk = EmptyDisk
  /\ clock = 1
  /\ main = [pc |-> "idle", urls |-> <<>>, image_urls |-> <<>>, i |-> 0, ret |-> "none",
             paths |-> <<>>, probed |-> NoProbe, events |-> <<>>,
             enq_before |-> {}, saved_before |-> {}]
  /\ wk = [w \in Threads |-> IdleWorker]
  /\ log = <<>>
  /\ result = NoResult

\* ------------------------------------------------------- download_all
\* The URLs the batch at hand has enqueued, and the bytes of its tasks that
\* were recorded as saved (history, for the properties across batches)
EnqueuedNow == {main.image_urls[k] : k \in 1..Len(main.paths)}

SavedNow == {Body(main.image_urls[i]) : i \in {j \in DOMAIN log : log[j].out = <<"success">>}}

Alive == {w \in Threads : wk[w].pc # "dead"}

\* Faulty variant of DownloadAllBegin: the statistics and the two lists are reset
\* after the early return, not before it
DownloadAllBegin_ResetLate ==
  /\ main.pc = "idle"
  /\ calls # <<>>
  /\ Cardinality(Threads \ Alive) >= config.max_workers
  /\ LET urls == Head(calls) IN
     \E probed \in [Probed(urls) -> ProbeAnswers] :
       LET f == FilterUrls(urls, <<>>, url_hash_set, config.deduplicate, probed)
           image_urls == f[1]
       IN /\ url_hash_set' = f[2]
          /\ stats' = IF image_urls = <<>> THEN stats ELSE ZeroStats
          /\ downloaded_files' = IF image_urls = <<>> THEN downloaded_files ELSE <<>>
          /\ failed_urls' = IF image_urls = <<>> THEN failed_urls ELSE <<>>
          /\ calls' = Tail(calls)
          /\ log' = [k \in 1..Len(image_urls) |-> NoLog]
          /\ main' = [pc |-> IF image_urls = <<>> THEN "idle" ELSE "enqueue",
                      urls |-> urls, image_urls |-> image_urls,
                      i |-> IF image_urls = <<>> THEN 0 ELSE 1,
                      ret |-> IF image_urls = <<>> THEN "False" ELSE "none",
                      paths |-> <<>>, probed |-> probed, events |-> <<>>,
                      enq_before |-> main.enq_before \cup EnqueuedNow,
                      saved_before |-> main.saved_before \cup SavedNow]
          /\ result' = IF image_urls = <<>>
                       THEN [stats |-> stats', downloaded_files |-> downloaded_files',
                             failed_urls |-> failed_urls']
                       ELSE NoResult
  /\ UNCHANGED <<config, download_queue, unfinished_tasks, file_hash_set, threads,
                 running, disk, clock, wk>>

\* Lines 310-329: reset of the statistics, the filter loop with URL dedup,
\* and the early return False when no URL is left.  Only the calling thread
\* touches url_hash_set, so the loop is one step.  A call is made when
\* enough thread slots are free for the threads it may start.
DownloadAllBegin ==
  /\ main.pc = "idle"
  /\ calls # <<>>
  /\ Cardinality(Threads \ Alive) >= config.max_workers
  /\ LET urls == Head(calls) IN
     \E probed \in [Probed(urls) -> ProbeAnswers] :
       LET f == FilterUrls(urls, <<>>, url_hash_set, config.deduplicate, probed)
           image_urls == f[1]
       IN /\ url_hash_set' = f[2]
          /\ stats' = ZeroStats
          /\ downloaded_files' = <<>>
          /\ failed_urls' = <<>>
          /\ calls' = Tail(calls)
          /\ log' = [k \in 1..Len(image_urls) |-> NoLog]
          /\ main' = [pc |-> IF image_urls = <<>> THEN "idle" ELSE "enqueue",
                      urls |-> urls, image_urls |-> image_urls,
                      i |-> IF image_urls = <<>> THEN 0 ELSE 1,
                      ret |-> IF image_urls = <<>> THEN "False" ELSE "none",
                      paths |-> <<>>, probed |-> probed, events |-> <<>>,
                      enq_before |-> main.enq_before \cup EnqueuedNow,
                      saved_before |-> main.saved_before \cup SavedNow]
          /\ result' = IF image_urls = <<>>
                       THEN [stats |-> stats', downloaded_files |-> <<>>,
                             failed_urls |-> <<>>]
                       ELSE NoResult
  /\ UNCHANGED <<config, download_queue, unfinished_tasks, file_hash_set, threads,
                 running, disk, clock, wk>>

\* Lines 337-347, one iteration: the file name, the timestamp suffix when the
\* path exists on disk, and the put.  time.time() is read for the suffix
\* only, and may have advanced since it was last read.
Enqueue ==
  /\ main.pc = "enqueue"
  /\ LET i == main.i
         url == main.image_urls[i]
         filename == get_filename_from_url(url, i)
         taken == Exists(disk, PathOf(filename, 0))
     IN \E now \in IF taken THEN clock..MaxClock ELSE {clock} :
          LET save_path == IF taken THEN PathOf(filename, now) ELSE PathOf(filename, 0)
          IN /\ clock' = now
             /\ download_queue' = Append(download_queue,
                                    [url |-> url, save_path |-> save_path, index |-> i])
             /\ unfinished_tasks' = unfinished_tasks + 1
             /\ main' = [main EXCEPT !.paths = Append(@, save_path),
                                     !.events = Append(@, "put"),
                                     !.i = IF i = Len(main.image_urls) THEN 0 ELSE i + 1,
                                     !.pc = IF i = Len(main.image_urls)
                                            THEN "start" ELSE "enqueue"]
  /\ UNCHANGED <<config, downloaded_files, failed_urls, stats, url_hash_set,
                 file_hash_set, threads, running, disk, wk, log, result, calls>>

\* Lines 349-353: total, running = True, threads = []
Start ==
  /\ main.pc = "start"
  /\ stats' = [stats EXCEPT !.total = Len(main.image_urls)]
  /\ running' = TRUE
  /\ threads' = {}
  /\ main' = [main EXCEPT !.pc = "spawn"]
  /\ UNCHANGED <<config, download_queue, unfinished_tasks, downloaded_files, failed_urls,
                 url_hash_set, file_hash_set, disk, clock, wk, log, result, calls>>

\* Lines 355-359, one iteration: a new thread running worker()
Spawn ==
  /\ main.pc = "spawn"
  /\ LET w == CHOOSE x \in Threads \ Alive : \A y \in Threads \ Alive : x <= y
         n == Min(config.max_workers, Len(main.image_urls))
     IN /\ wk' = [wk EXCEPT ![w] = [IdleWorker EXCEPT !.pc = "get"]]
        /\ threads' = threads \cup {w}
        /\ main' = [main EXCEPT !.pc = IF Cardinality(threads') = n THEN "join" ELSE "spawn",
                                !.events = Append(@, "start")]
  /\ UNCHANGED <<config, download_queue, unfinished_tasks, downloaded_files, failed_urls,
                 stats, url_hash_set, file_hash_set, running, disk, clock, log, result, calls>>

\* Faulty variant of QueueJoin: the caller waits for the queue to be empty, not for
\* the tasks taken from it to be done
QueueJoin_QueueEmpty ==
  /\ main.pc = "join"
  /\ download_queue = <<>>
  /\ main' = [main EXCEPT !.pc = "stop", !.events = Append(@, "queue_join")]
  /\ UNCHANGED <<shared, config, clock, wk, log, result, calls>>

\* Line 362: download_queue.join() returns when unfinished_tasks is 0
QueueJoin ==
  /\ main.pc = "join"
  /\ unfinished_tasks = 0
  /\ main' = [main EXCEPT !.pc = "stop", !.events = Append(@, "queue_join")]
  /\ UNCHANGED <<shared, config, clock, wk, log, result, calls>>

\* Faulty variant of Stop: download_all returns once the stop flag is set, without
\* joining the worker threads
Stop_NoJoin ==
  /\ main.pc = "stop"
  /\ running' = FALSE
  /\ main' = [main EXCEPT !.pc = "idle", !.i = 0, !.ret = "True",
                          !.events = Append(@, "stop")]
  /\ result' = [stats |-> stats, downloaded_files |-> downloaded_files,
                failed_urls |-> failed_urls]
  /\ UNCHANGED <<config, download_queue, unfinished_tasks, downloaded_files, failed_urls,
                 stats, url_hash_set, file_hash_set, threads, disk, clock, wk, log,
                 calls>>

\* Line 365: running = False
Stop ==
  /\ main.pc = "stop"
  /\ running' = FALSE
  /\ main' = [main EXCEPT !.pc = "jointhreads", !.i = 1, !.events = Append(@, "stop")]
  /\ UNCHANGED <<config, download_queue, unfinished_tasks, downloaded_files, failed_urls,
                 stats, url_hash_set, file_hash_set, threads, disk, clock, wk, log,
                 result, calls>>

\* Lines 366-369, one iteration: thread.join(timeout=1) returns when the
\* thread has ended or when the second is over, whichever comes first; after
\* the last one download_all returns True.
JoinThread ==
  /\ main.pc = "jointhreads"
  /\ IF main.i = Cardinality(threads)
     THEN /\ main' = [main EXCEPT !.pc = "idle", !.i = 0, !.ret = "True",
                                  !.events = Append(@, "thread_join")]
          /\ result' = [stats |-> stats, downloaded_files |-> downloaded_files,
                        failed_urls |-> failed_urls]
     ELSE /\ main' = [main EXCEPT !.i = @ + 1, !.events = Append(@, "thread_join")]
          /\ UNCHANGED result
  /\ UNCHANGED <<shared, config, clock, wk, log, calls>>

MainStep == DownloadAllBegin \/ Enqueue \/ Start \/ Spawn \/ QueueJoin \/ Stop \/ JoinThread

\* ------------------------------------------------------------- worker
Task(w) == wk[w].task

\* Lines 265-272, 307-308: while self.running: get(timeout=1).  The head of
\* the queue is handed out; a thread that finds self.running False, at its
\* start, after a task or after queue.Empty, ends.
WGet(w) ==
  /\ wk[w].pc = "get"
  /\ \/ /\ download_queue # <<>>
        /\ download_queue' = Tail(download_queue)
        /\ wk' = [wk EXCEPT ![w] = [IdleWorker EXCEPT !.pc = "download",
                                                     !.task = Head(download_queue)]]
        /\ log' = [log EXCEPT ![Head(download_queue).index].deq = @ + 1]
     \/ /\ ~running
        /\ wk' = [wk EXCEPT ![w] = IdleWorker]
        /\ UNCHANGED <<download_queue, log>>
  /\ UNCHANGED <<config, calls, unfinished_tasks, downloaded_files, failed_urls, stats,
                 url_hash_set, file_hash_set, threads, running, disk, clock, main,
                 result>>

\* Faulty variant of DiskAfter: the length is checked after the body was written
DiskAfter_SizeCheckedLate(d, task, outcome) ==
  CASE outcome = "ok"            -> WriteFile(d, task.save_path, Body(task.url))
    [] outcome = "too_large"     -> WriteFile(d, task.save_path, Body(task.url))
    [] outcome = "stream_error"  -> WriteFile(d, task.save_path, Partial)
    [] outcome = "invalid_image" -> RemoveFile(d, task.save_path)
    [] OTHER                     -> d

\* Faulty variant of DiskAfter: a file that fails validation is left where it is
DiskAfter_InvalidKept(d, task, outcome) ==
  CASE outcome = "ok"            -> WriteFile(d, task.save_path, Body(task.url))
    [] outcome = "stream_error"  -> WriteFile(d, task.save_path, Partial)
    [] outcome = "invalid_image" -> WriteFile(d, task.save_path, Body(task.url))
    [] OTHER                     -> d

\* What one attempt of download_image leaves in the save directory
DiskAfter(d, task, outcome) ==
  CASE outcome = "ok"            -> WriteFile(d, task.save_path, Body(task.url))
    [] outcome = "stream_error"  -> WriteFile(d, task.save_path, Partial)
    [] outcome = "invalid_image" -> RemoveFile(d, task.save_path)
    [] OTHER                     -> d

\* Faulty variant of MayRetry: <= for <, one attempt too many
MayRetry_Inclusive(retry_count) == retry_count <= config.retry_attempts

\* Line 257: whether a failed attempt is followed by another one
MayRetry(retry_count) == retry_count < config.retry_attempts

\* Faulty variant of WAttempt: the error raised after the last attempt is the one
\* of the first attempt
WAttempt_FirstError(w) ==
  /\ wk[w].pc = "download"
  /\ \E outcome \in Outcomes(Task(w).url) :
       LET first == IF wk[w].err = "none" THEN outcome ELSE wk[w].err IN
       /\ disk' = DiskAfter(disk, Task(w), outcome)
       /\ IF outcome = "ok"
          THEN /\ wk' = [wk EXCEPT ![w].pc = "hash", ![w].attempts = @ + 1,
                                   ![w].err = "none"]
               /\ log' = [log EXCEPT ![Task(w).index].fetch = "ok"]
          ELSE IF MayRetry(wk[w].retry_count)
               THEN /\ wk' = [wk EXCEPT ![w].retry_count = @ + 1, ![w].attempts = @ + 1,
                                        ![w].err = first]
                    /\ UNCHANGED log
               ELSE /\ wk' = [wk EXCEPT ![w].pc = "fail_append", ![w].err = first,
                                        ![w].attempts = @ + 1]
                    /\ log' = [log EXCEPT ![Task(w).index].fetch = outcome]
  /\ UNCHANGED <<config, calls, download_queue, unfinished_tasks, downloaded_files,
                 failed_urls, stats, url_hash_set, file_hash_set, threads, running,
                 clock, main, result>>

\* Lines 205-261, one attempt of download_image: return True, or the except
\* clause: the recursive call with retry_count + 1, or raise
WAttempt(w) ==
  /\ wk[w].pc = "download"
  /\ \E outcome \in Outcomes(Task(w).url) :
       /\ disk' = DiskAfter(disk, Task(w), outcome)
       /\ IF outcome = "ok"
          THEN /\ wk' = [wk EXCEPT ![w].pc = "hash", ![w].attempts = @ + 1]
               /\ log' = [log EXCEPT ![Task(w).index].fetch = "ok"]
          ELSE IF MayRetry(wk[w].retry_count)
               THEN /\ wk' = [wk EXCEPT ![w].retry_count = @ + 1, ![w].attempts = @ + 1]
                    /\ UNCHANGED log
               ELSE /\ wk' = [wk EXCEPT ![w].pc = "fail_append", ![w].err = outcome,
                                        ![w].attempts = @ + 1]
                    /\ log' = [log EXCEPT ![Task(w).index].fetch = outcome]
  /\ UNCHANGED <<config, calls, download_queue, unfinished_tasks, downloaded_files,
                 failed_urls, stats, url_hash_set, file_hash_set, threads, running,
                 clock, main, result>>

\* calculate_file_hash: the digest of what is at the path now, None when
\* the file cannot be read
calculate_file_hash(d, path) == IF Exists(d, path) THEN d[path] ELSE NoHash

\* Lines 280-282, 294: the hash, and the choice of the dedup branch
WHash(w) ==
  /\ wk[w].pc = "hash"
  /\ LET file_hash == calculate_file_hash(disk, Task(w).save_path)
     IN wk' = [wk EXCEPT ![w].file_hash = file_hash,
                         ![w].pc = IF config.deduplicate /\ file_hash # NoHash
                                   THEN "check" ELSE "append"]
  /\ UNCHANGED <<shared, config, calls, clock, main, log, result>>

\* Line 283: if file_hash in self.file_hash_set
WCheck(w) ==
  /\ wk[w].pc = "check"
  /\ wk' = [wk EXCEPT ![w].pc = IF wk[w].file_hash \in file_hash_set
                                THEN "remove" ELSE "add"]
  /\ UNCHANGED <<shared, config, calls, clock, main, log, result>>

\* Line 285: os.remove(save_path); FileNotFoundError goes to line 299
WRemove(w) ==
  /\ wk[w].pc = "remove"
  /\ IF Exists(disk, Task(w).save_path)
     THEN /\ disk' = RemoveFile(disk, Task(w).save_path)
          /\ wk' = [wk EXCEPT ![w].pc = "dup_read"]
     ELSE /\ wk' = [wk EXCEPT ![w].pc = "fail_append", ![w].err = "FileNotFoundError"]
          /\ UNCHANGED disk
  /\ UNCHANGED <<config, calls, download_queue, unfinished_tasks, downloaded_files,
                 failed_urls, stats, url_hash_set, file_hash_set, threads, running,
                 clock, main, log, result>>

\* self.stats[key] += 1, first half: the value is read
IncRead(w, at, key, next) ==
  /\ wk[w].pc = at
  /\ wk' = [wk EXCEPT ![w].tmp = stats[key], ![w].pc = next]
  /\ UNCHANGED <<shared, config, calls, clock, main, log, result>>

\* self.stats[key] += 1, second half: the value read, plus one, is stored
IncWrite(w, at, key, next) ==
  /\ wk[w].pc = at
  /\ stats' = [stats EXCEPT ![key] = wk[w].tmp + 1]
  /\ wk' = [wk EXCEPT ![w].pc = next, ![w].tmp = 0]
  /\ log' = [log EXCEPT ![Task(w).index].out = Append(@, key)]
  /\ UNCHANGED <<config, calls, download_queue, unfinished_tasks, downloaded_files,
                 failed_urls, url_hash_set, file_hash_set, threads, running, disk,
                 clock, main, result>>

\* Lines 304-305 after the last statement of a branch: finally: task_done(),
\* and back to the head of the loop
TaskDone(w, at, key) ==
  /\ wk[w].pc = at
  /\ stats' = [stats EXCEPT ![key] = wk[w].tmp + 1]
  /\ log' = [log EXCEPT ![Task(w).index].out = Append(@, key)]
  /\ unfinished_tasks' = unfinished_tasks - 1
  /\ wk' = [wk EXCEPT ![w] = [IdleWorker EXCEPT !.pc = "get"]]
  /\ UNCHANGED <<config, calls, download_queue, downloaded_files, failed_urls,
                 url_hash_set, file_hash_set, threads, running, disk, clock, main,
                 result>>

\* Faulty variant of WDuplicate: the else of line 289 is missing, a duplicate goes
\* on into the success branch
WDuplicate_FallThrough(w) ==
  \/ IncRead(w, "dup_read", "duplicate", "dup_write")
  \/ IncWrite(w, "dup_write", "duplicate", "skip_read")
  \/ IncRead(w, "skip_read", "skipped", "skip_write")
  \/ IncWrite(w, "skip_write", "skipped", "append")

\* Lines 286-287: duplicate += 1, skipped += 1
WDuplicate(w) ==
  \/ IncRead(w, "dup_read", "duplicate", "dup_write")
  \/ IncWrite(w, "dup_write", "duplicate", "skip_read")
  \/ IncRead(w, "skip_read", "skipped", "skip_write")
  \/ TaskDone(w, "skip_write", "skipped")

\* Lines 290-292 and 295-296: add(file_hash) in the dedup branch, then
\* downloaded_files.append(save_path) and the read of success += 1
WAdd(w) ==
  /\ wk[w].pc \in {"add", "append"}
  /\ file_hash_set' = IF wk[w].pc = "add"
                      THEN file_hash_set \cup {wk[w].file_hash}
                      ELSE file_hash_set
  /\ downloaded_files' = Append(downloaded_files, Task(w).save_path)
  /\ wk' = [wk EXCEPT ![w].pc = "succ_write", ![w].tmp = stats.success]
  /\ UNCHANGED <<config, calls, download_queue, unfinished_tasks, failed_urls, stats,
                 url_hash_set, threads, running, disk, clock, main, log, result>>

\* Lines 292 and 296, the write of success += 1
WSuccess(w) == TaskDone(w, "succ_write", "success")

\* Lines 300-301: failed_urls.append((url, str(e))) and the read of failed += 1
WFailAppend(w) ==
  /\ wk[w].pc = "fail_append"
  /\ failed_urls' = Append(failed_urls, <<Task(w).url, wk[w].err>>)
  /\ wk' = [wk EXCEPT ![w].pc = "fail_write", ![w].tmp = stats.failed]
  /\ UNCHANGED <<config, calls, download_queue, unfinished_tasks, downloaded_files, stats,
                 url_hash_set, file_hash_set, threads, running, disk, clock, main, log,
                 result>>

\* Faulty variant of WFailed: task_done() is not in a finally clause and is skipped
\* when the download raised
WFailed_NoTaskDone(w) == IncWrite(w, "fail_write", "failed", "get")

\* Faulty variant of WFailed: the exception leaves the while loop and ends the thread
WFailed_Break(w) ==
  /\ wk[w].pc = "fail_write"
  /\ stats' = [stats EXCEPT !.failed = wk[w].tmp + 1]
  /\ log' = [log EXCEPT ![Task(w).index].out = Append(@, "failed")]
  /\ unfinished_tasks' = unfinished_tasks - 1
  /\ wk' = [wk EXCEPT ![w] = IdleWorker]
  /\ UNCHANGED <<config, calls, download_queue, downloaded_files, failed_urls,
                 url_hash_set, file_hash_set, threads, running, disk, clock, main,
                 result>>

\* Line 301, the write of failed += 1
WFailed(w) == TaskDone(w, "fail_write", "failed")

WorkerStep(w) ==
  \/ WGet(w) \/ WAttempt(w) \/ WHash(w) \/ WCheck(w) \/ WRemove(w)
  \/ WDuplicate(w) \/ WAdd(w) \/ WSuccess(w) \/ WFailAppend(w) \/ WFailed(w)

Next == MainStep \/ \E w \in Threads : WorkerStep(w)

Spec == Init /\ [][Next]_vars

\* The instances on which termination is checked: every single call, and the
\* two calls in a row with one configured worker (the second batch then runs
\* with its own thread and, possibly, the thread left over from the first).
InitLive == Init /\ (Len(calls) = 1 \/ config.max_workers = 1)

\* The operating system schedules the calling thread and every worker
\* thread again and again: weak fairness of each of them.
FairSpec ==
  InitLive /\ [][Next]_vars /\ WF_vars(MainStep) /\ \A w \in Threads : WF_vars(WorkerStep(w))

\* ------------------------------------------------------------- properties
\* download_all has returned True
Returned == main.pc = "idle" /\ main.ret = "True"

TaskIds == DOMAIN log

InQueue(i) == \E k \in 1..Len(download_queue) : download_queue[k].index = i

InFlight(i) == \E w \in Threads : wk[w].task.index = i

\* The counters one task may have incremented when it is done
Terminal == { <<"success">>, <<"failed">>, <<"duplicate", "skipped">> }

\* C1: whenever download_all has returned True, total = success + failed + skipped.
C1_CountersAddUp ==
  Returned => stats.total = stats.success + stats.failed + stats.skipped

\* C2: with deduplication enabled, when download_all has returned, no two tasks
\* of the batch that fetched the same bytes are both recorded as Success.
C2_OneSuccessPerDigest ==
  (Returned /\ config.deduplicate) =>
    \A i, j \in TaskIds :
      (i # j /\ Body(main.image_urls[i]) = Body(main.image_urls[j]))
        => ~(log[i].out = <<"success">> /\ log[j].out = <<"success">>)

C4_DuplicateLeSkipped == stats.duplicate <= stats.skipped

\* C5: when download_all has returned True the queue is empty, no task is
\* unfinished or in flight, every task has its outcome, and stats,
\* downloaded_files and failed_urls are still what the caller was handed.
C5_ReturnAfterAllOutcomes ==
  Returned =>
    /\ download_queue = <<>>
    /\ unfinished_tasks = 0
    /\ \A w \in Threads : wk[w].pc \in {"dead", "get"}
    /\ \A i \in TaskIds : log[i].out \in Terminal
    /\ result = [stats |-> stats, downloaded_files |-> downloaded_files,
                 failed_urls |-> failed_urls]

\* C5 witness: download_all has returned from a batch of two tasks while one
\* of its worker threads is still alive
C5_Witness ==
  /\ Returned
  /\ Len(main.image_urls) = 2
  /\ \E w \in threads : wk[w].pc = "get"

\* C6: download_image makes at most retry_attempts + 1 fetch attempts for a task.
C6_AttemptsBounded ==
  \A w \in Threads : wk[w].attempts <= config.retry_attempts + 1

\* C6 witness: with at least one retry configured, download_image has raised
\* after its last attempt failed
C6_Witness ==
  /\ config.retry_attempts >= 1
  /\ \E w \in Threads :
       /\ wk[w].pc = "fail_append"
       /\ wk[w].err \in Errors
       /\ wk[w].attempts = config.retry_attempts + 1

\* C7: the tasks enqueued in one batch have pairwise distinct destination paths.
C7_DistinctPaths ==
  \A i, j \in 1..Len(main.paths) : i # j => main.paths[i] # main.paths[j]

\* C8: under fair scheduling every download_all that has enqueued its first
\* task returns True.
C8_BatchTerminates == (main.pc = "enqueue") ~> Returned

\* C8 witness: download_all has returned True from a batch of two tasks
C8_Witness ==
  /\ Returned
  /\ Len(main.image_urls) = 2
  /\ stats.total = 2

\* C9: a failed task leaves the batch running: while download_all waits for
\* the queue, self.running is True, every worker thread of the batch is alive
\* and every task is queued, in flight or done with its outcome; and when
\* download_all has returned every task has its outcome.
C9_FailureIsLocal ==
  /\ main.pc = "join" =>
       /\ running
       /\ \A w \in threads : wk[w].pc # "dead"
       /\ \A i \in TaskIds : InQueue(i) \/ InFlight(i) \/ log[i].out \in Terminal
  /\ Returned => \A i \in TaskIds : log[i].out \in Terminal

\* C9 witness: the only worker alive has counted the first task as failed and
\* is now fetching the second one
C9_Witness ==
  /\ main.pc = "join"
  /\ Cardinality(Alive) = 1
  /\ \E i, j \in TaskIds :
       /\ i # j
       /\ log[i].out = <<"failed">>
       /\ \E w \in threads : wk[w].pc = "download" /\ wk[w].task.index = j

\* The scenario of C10: download_all([a.jpg, b.jpg, a.jpg]) has returned True,
\* one worker, no download_image call raised
Scenario10 ==
  /\ Returned
  /\ main.urls = <<UrlA, UrlB, UrlA>>
  /\ Body(UrlA) = Body(UrlB)
  /\ config.max_workers = 1
  /\ \A i \in TaskIds : log[i].out # <<"failed">>

\* C10 as stated: with dedup total = 3, duplicate = 1, failed = 0 and success
\* 1 or 2; without dedup total = 3 and success = 3.
C10_Original ==
  Scenario10 =>
    IF config.deduplicate
    THEN /\ stats.total = 3
         /\ stats.duplicate = 1
         /\ stats.failed = 0
         /\ stats.success \in {1, 2}
    ELSE stats.total = 3 /\ stats.success = 3

\* C10 amended: with dedup the repeated URL is never enqueued, so total = 2,
\* success = 1, duplicate = 1 and failed = 0; without dedup total = 3 and
\* success = 3.
C10_Scenario ==
  Scenario10 =>
    IF config.deduplicate
    THEN /\ stats.total = 2
         /\ stats.success = 1
         /\ stats.duplicate = 1
         /\ stats.failed = 0
    ELSE stats.total = 3 /\ stats.success = 3

\* C10 witness: the scenario with dedup enabled, one task counted as duplicate
C10_Witness ==
  /\ Scenario10
  /\ config.deduplicate
  /\ stats.duplicate = 1

\* The URLs of the call at hand that pass is_image_url, in the caller's order
Classified ==
  LET passes(url) == is_image_url(url, main.probed)
  IN SelectSeq(main.urls, passes)

\* C11: with deduplication disabled every URL that passes classification is
\* enqueued, repeated URLs included; a task whose download_image call returned
\* True goes on to the success branch and nowhere else and is recorded as
\* Success, whatever the bytes of the other tasks; duplicate and skipped stay 0.
C11_DedupDisabled ==
  ~config.deduplicate =>
    /\ main.image_urls = Classified
    /\ main.pc # "enqueue" =>
         /\ Len(main.paths) = Len(Classified)
         /\ \A k \in 1..Len(Classified) :
              InQueue(k) \/ InFlight(k) \/ log[k].out \in Terminal
    /\ stats.duplicate = 0
    /\ stats.skipped = 0
    /\ \A w \in Threads :
         wk[w].pc \in {"download", "hash", "append", "succ_write", "fail_append",
                       "fail_write", "get", "dead"}
    /\ \A i \in TaskIds :
         /\ (log[i].fetch = "ok" /\ ~InFlight(i)) => log[i].out = <<"success">>
         /\ log[i].out = <<"success">> =>
              \E k \in 1..Len(downloaded_files) : downloaded_files[k] = main.paths[i]

\* C11 witness: dedup disabled, download_all([a.jpg, b.jpg, a.jpg]) has
\* returned: the repeated URL was enqueued, and the three tasks, two of the same
\* URL and all of the same bytes, are each recorded as Success
C11_Witness ==
  /\ Returned
  /\ ~config.deduplicate
  /\ main.urls = <<UrlA, UrlB, UrlA>>
  /\ Len(main.paths) = 3
  /\ \A i \in 1..3 : log[i].out = <<"success">>
  /\ Len(downloaded_files) = 3

\* C12: with deduplication enabled, the digest of every URL enqueued in an
\* earlier batch is still in url_hash_set, no URL enqueued in an earlier batch
\* is enqueued again, and no task is recorded as Success whose bytes were
\* those of a task recorded as Success in an earlier batch.
C12_NeverAgain ==
  config.deduplicate =>
    /\ \A url \in main.enq_before : UrlHash(url) \in url_hash_set
    /\ \A k \in 1..Len(main.image_urls) : main.image_urls[k] \notin main.enq_before
    /\ \A i \in TaskIds :
         log[i].out = <<"success">> => Body(main.image_urls[i]) \notin main.saved_before

\* The two digest sets never lose an element
SetsOnlyGrow ==
  [][url_hash_set \subseteq url_hash_set' /\ file_hash_set \subseteq file_hash_set']_vars

\* C13: while a batch runs, from the first thread start to the return of
\* download_all, the worker threads that are alive, and so able to dequeue
\* and process tasks, number at most min(max_workers, tasks of the batch).
C13_WorkerBound ==
  main.pc \in {"spawn", "join", "stop", "jointhreads"} =>
    Cardinality(Alive) <= Min(config.max_workers, Len(main.image_urls))

\* C14: a task whose responses declare a Content-Length over max_file_size
\* never has download_image return True, is recorded as failed and as nothing
\* else, and at no moment, after the first attempt or after a retry, is there
\* a file at its destination path.
C14_TooLargeNothingWritten ==
  \A i \in 1..Len(main.paths) :
    ContentLengthOver(main.image_urls[i]) =>
      /\ log[i].fetch \in {"none", "http_error", "too_large"}
      /\ log[i].out \in {<<>>, <<"failed">>}
      /\ ~Exists(disk, main.paths[i])
      /\ (main.pc # "enqueue" /\ ~InQueue(i) /\ ~InFlight(i)) => log[i].out = <<"failed">>

\* C14 witness: with a retry configured, the second attempt for the URL with
\* the length over the maximum has raised the size error, while the file of
\* the other task of the batch is on disk
C14_Witness ==
  /\ config.retry_attempts >= 1
  /\ disk # EmptyDisk
  /\ \E w \in Threads :
       /\ ContentLengthOver(wk[w].task.url)
       /\ wk[w].pc = "fail_append"
       /\ wk[w].err = "too_large"
       /\ wk[w].attempts = config.retry_attempts + 1

\* Task i is the only task of the batch enqueued with its destination path
OwnPath(i) == \A j \in 1..Len(main.paths) : j # i => main.paths[j] # main.paths[i]

\* C15: once download_image has raised the validation error of an attempt
\* that wrote the file (size on disk under the minimum, or not an image),
\* there is no file at the task's destination path, then and until the batch
\* is over, unless another task of the batch was given the same path.
C15_InvalidFileRemoved ==
  \A i \in 1..Len(main.paths) :
    (log[i].fetch = "invalid_image" /\ OwnPath(i)) => ~Exists(disk, main.paths[i])

\* C15 witness: download_all has returned; a task ended with the validation
\* error and is recorded as failed, it alone had its path, and the file of the
\* other task of the batch is on disk
C15_Witness ==
  /\ Returned
  /\ disk # EmptyDisk
  /\ \E i \in TaskIds :
       /\ log[i].fetch = "invalid_image"
       /\ log[i].out = <<"failed">>
       /\ OwnPath(i)

\* The first call on a fresh instance: nothing was enqueued or saved before
FirstBatch == main.enq_before = {} /\ main.saved_before = {}

\* The tasks of the batch whose download_image call returned True
FetchedOk == {i \in TaskIds : log[i].fetch = "ok"}

\* C16: two runs of the same list with the same fetch outcome per URL agree on
\* every classification and on the final counts.  A run in which the workers
\* take turns gives each URL the classification of its fetch outcome and
\* counts each task once, so the two runs agree for every interleaving exactly
\* when every run does the same: with deduplication disabled, when the first
\* download_all of an instance has returned, a task is recorded as success if
\* its fetch succeeded and as failed if not, success is the number of fetches
\* that succeeded and failed the number of those that did not.
C16_SameClassification ==
  (Returned /\ FirstBatch /\ ~config.deduplicate) =>
    /\ \A i \in TaskIds :
         log[i].out = IF i \in FetchedOk THEN <<"success">> ELSE <<"failed">>
    /\ result.stats.success = Cardinality(FetchedOk)
    /\ result.stats.failed = Cardinality(TaskIds \ FetchedOk)

\* A run of download_all([a.jpg, b.jpg]) with two workers, dedup disabled and
\* both fetches successful that ends with success = 2: the run the others are
\* compared with in C16
C16_ConformingRun ==
  /\ Returned /\ FirstBatch /\ ~config.deduplicate
  /\ config.max_workers = 2
  /\ main.urls = <<UrlA, UrlB>>
  /\ FetchedOk = {1, 2}
  /\ result.stats.success = 2

\* C17: when download_all has returned True, success is the length of
\* downloaded_files and failed is the length of failed_urls.
C17_CountsMatchLists ==
  Returned =>
    /\ result.stats.success = Len(result.downloaded_files)
    /\ result.stats.failed = Len(result.failed_urls)

\* C18: in download_image every failed attempt is followed by another one
\* while fewer than retry_attempts retries were made (a call still running
\* has made as many attempts as retries); an attempt that succeeds ends the
\* call with True after at most retry_attempts + 1 attempts; the call raises
\* only after retry_attempts + 1 failed attempts, and the error the worker
\* catches and appends to failed_urls is that of the last attempt.
C18_RetryPolicy ==
  \A w \in Threads :
    LET i == wk[w].task.index IN
    /\ wk[w].pc = "download" =>
         /\ wk[w].attempts = wk[w].retry_count
         /\ wk[w].retry_count <= config.retry_attempts
         /\ log[i].fetch = "none"
    /\ wk[w].pc = "hash" =>
         /\ log[i].fetch = "ok"
         /\ wk[w].attempts = wk[w].retry_count + 1
         /\ wk[w].attempts <= config.retry_attempts + 1
    /\ (wk[w].pc \in {"fail_append", "fail_write"} /\ wk[w].err \in Errors) =>
         /\ wk[w].attempts = config.retry_attempts + 1
         /\ wk[w].err = log[i].fetch
         /\ wk[w].pc = "fail_write" =>
              \E k \in 1..Len(failed_urls) : failed_urls[k] = <<wk[w].task.url, log[i].fetch>>

\* C18 witness: one retry configured; the first attempt broke while the body
\* was streamed and left its partial file, the second one raised before
\* writing, and the worker has appended the second error to failed_urls
C18_Witness ==
  /\ config.retry_attempts = 1
  /\ \E w \in Threads :
       /\ wk[w].pc = "fail_write"
       /\ wk[w].attempts = 2
       /\ wk[w].err = "http_error"
       /\ OwnPath(wk[w].task.index)
       /\ Exists(disk, wk[w].task.save_path)
       /\ disk[wk[w].task.save_path] = Partial
       /\ failed_urls[Len(failed_urls)] = <<wk[w].task.url, "http_error">>

\* The events of a batch in the caller's thread: "put" a task is fed to the
\* queue, "start" a worker thread is started, "queue_join" the wait for the
\* queue is over, "stop" self.running is set to False, "thread_join" a worker
\* thread was joined.  Their order as the design states it, and as the code
\* has it.
StatedRank(e) ==
  CASE e = "start" -> 1 [] e = "put" -> 2 [] e = "queue_join" -> 3
    [] e = "stop" -> 4 [] e = "thread_join" -> 5

CodeRank(e) ==
  CASE e = "put" -> 1 [] e = "start" -> 2 [] e = "queue_join" -> 3
    [] e = "stop" -> 4 [] e = "thread_join" -> 5

InOrder(events, Rank(_)) ==
  \A i, j \in 1..Len(events) : i < j => Rank(events[i]) <= Rank(events[j])

Count(events, e) == Cardinality({k \in 1..Len(events) : events[k] = e})

\* What holds of the events of every batch, whatever their order: the stop
\* flag is set from the first thread start to the stop, the queue is drained
\* when the wait for it is over, and a batch that has returned has fed every
\* task, started min(max_workers, tasks) threads, waited, stopped and joined
\* each of its threads.
EventsComplete ==
  /\ (Count(main.events, "start") > 0 /\ Count(main.events, "stop") = 0) => running
  /\ Count(main.events, "stop") > 0 => ~running
  /\ Count(main.events, "queue_join") > 0 =>
       (download_queue = <<>> /\ unfinished_tasks = 0)
  /\ Returned =>
       /\ Count(main.events, "put") = Len(main.image_urls)
       /\ Count(main.events, "start") = Min(config.max_workers, Len(main.image_urls))
       /\ Count(main.events, "queue_join") = 1
       /\ Count(main.events, "stop") = 1
       /\ Count(main.events, "thread_join") = Count(main.events, "start")

\* C19 as stated: the workers are spawned, then the tasks are fed, then the
\* caller waits for the queue, then stops the workers, then joins them.
C19_Original == InOrder(main.events, StatedRank) /\ EventsComplete

\* C19 amended: all tasks are fed to the queue, then the workers are spawned,
\* then the caller waits for the queue, then stops the workers, then joins them.
C19_EventOrder == InOrder(main.events, CodeRank) /\ EventsComplete

\* C19 witness: a batch of two tasks and two workers has returned
C19_Witness ==
  /\ Returned
  /\ main.events = <<"put", "put", "start", "start", "queue_join", "stop",
                     "thread_join", "thread_join">>

\* Where a worker is between finding the digest of its file in file_hash_set
\* (line 283) and the end of the duplicate branch (line 288)
DupPcs == {"remove", "dup_read", "dup_write", "skip_read", "skip_write"}

\* C20: every step of a worker that found the digest of its file in
\* file_hash_set leaves success, failed, downloaded_files and failed_urls as
\* they are and keeps the worker in the duplicate branch until the task is
\* done; the step of line 285 deletes the file, that of line 286 makes
\* duplicate one more than it was and that of line 287 does so for skipped.
C20_DuplicateFrame ==
  [][\A w \in Threads :
       (wk[w].pc \in DupPcs /\ wk'[w] # wk[w]) =>
         /\ stats'.success = stats.success
         /\ stats'.failed = stats.failed
         /\ downloaded_files' = downloaded_files
         /\ failed_urls' = failed_urls
         /\ wk'[w].pc \in DupPcs \cup {"get"}
         /\ wk[w].pc = "remove" =>
              (Exists(disk, wk[w].task.save_path) /\ ~Exists(disk', wk[w].task.save_path))
         /\ wk[w].pc = "dup_write" => stats'.duplicate = stats.duplicate + 1
         /\ wk[w].pc = "skip_write" => stats'.skipped = stats.skipped + 1
    ]_vars

\* The URL at place k of the call's list is an image URL for is_image_url
\* and, with deduplication, was not enqueued by an earlier call and does not
\* occur earlier in the list
Survives(k) ==
  /\ is_image_url(main.urls[k], main.probed)
  /\ config.deduplicate =>
       /\ main.urls[k] \notin main.enq_before
       /\ \A j \in 1..(k - 1) : main.urls[j] # main.urls[k]

InBatch(url) == \E k \in 1..Len(main.image_urls) : main.image_urls[k] = url

\* C21: for every URL of a call: when its lower-cased path ends with a
\* supported extension no probe is made and the URL is taken; otherwise the
\* probe is made and the URL is taken exactly when the answer has an image
\* content type.  A URL whose probe failed is in no batch, is counted in no
\* total and appears in no failed_urls, and download_all goes on with the
\* other URLs of the list.
C21_ClassifierTotal ==
  /\ stats.total \in {0, Len(main.image_urls)}
  /\ \A k \in 1..Len(main.urls) :
       LET url == main.urls[k] IN
       /\ Lower(url.ext) \in SupportedExtensions =>
            (url \notin DOMAIN main.probed /\ is_image_url(url, main.probed))
       /\ Lower(url.ext) \notin SupportedExtensions =>
            /\ url \in DOMAIN main.probed
            /\ is_image_url(url, main.probed) <=> main.probed[url] = "image"
            /\ main.probed[url] = "error" =>
                 /\ ~InBatch(url)
                 /\ \A n \in 1..Len(failed_urls) : failed_urls[n][1] # url
                 /\ \A j \in 1..Len(main.urls) : Survives(j) => InBatch(main.urls[j])
       /\ InBatch(url) <=> \E j \in 1..Len(main.urls) : main.urls[j] = url /\ Survives(j)

\* C21 witness: download_all([pic, big.JPG]) has returned True: the probe of
\* the URL without extension failed, the URL with the upper-case extension was
\* taken without a probe, and the batch was that URL alone
C21_Witness ==
  /\ Returned
  /\ main.urls = <<UrlP, UrlBig>>
  /\ main.probed = [url \in {UrlP} |-> "error"]
  /\ main.image_urls = <<UrlBig>>
  /\ result.stats.total = 1

\* C22: when download_all has returned True, every path of downloaded_files
\* names a file that is on disk.
C22_SavedFilesExist ==
  Returned =>
    \A k \in 1..Len(result.downloaded_files) : Exists(disk, result.downloaded_files[k])

\* C23: a task recorded as failed has no file at its destination path,
\* whatever the error of its last attempt, unless another task of the batch
\* was given the same path.
C23_NoFileAfterFailure ==
  \A i \in 1..Len(main.paths) :
    (log[i].out = <<"failed">> /\ OwnPath(i)) => ~Exists(disk, main.paths[i])

\* C24: the destination path a task is enqueued with names no file that is
\* on disk at that moment, the path with the timestamp suffix included.
C24_FreshPath ==
  [][(main.pc = "enqueue" /\ Len(main'.paths) = Len(main.paths) + 1) =>
       ~Exists(disk, main'.paths[Len(main'.paths)])]_vars

\* C25: download_all returns False exactly when no URL of the call survives
\* classification and URL dedup; it has then fed no task and started no
\* thread, the five counters are 0 and downloaded_files and failed_urls are
\* empty, for the caller and in the instance, and no worker is at work.
C25_EmptyBatch ==
  /\ (main.urls # <<>> /\ \A k \in 1..Len(main.urls) : ~Survives(k)) =>
       (main.pc = "idle" /\ main.ret = "False")
  /\ (main.pc = "idle" /\ main.ret = "False") =>
       /\ \A k \in 1..Len(main.urls) : ~Survives(k)
       /\ main.events = <<>>
       /\ main.paths = <<>>
       /\ download_queue = <<>>
       /\ unfinished_tasks = 0
       /\ ~running
       /\ \A w \in Threads : wk[w].pc \in {"dead", "get"}
       /\ stats = ZeroStats
       /\ downloaded_files = <<>>
       /\ failed_urls = <<>>
       /\ result = NoResult

\* C25 witness: the call before saved a file and counted it; this call passed
\* the same URL with deduplication enabled and has returned False
C25_Witness ==
  /\ main.pc = "idle"
  /\ main.ret = "False"
  /\ config.deduplicate
  /\ main.urls = <<UrlA>>
  /\ main.saved_before # {}
  /\ stats = ZeroStats

====
